---- MODULE Spec2Model ----
(***************************************************************************)
(* Model of visbrain's source projection (brain/base/projection.py), ROI   *)
(* volume object (objects/roi_obj.py) and colorbar state                   *)
(* (utils/cbar/CbarBase.py).                                               *)
(*                                                                         *)
(* Encoding conventions                                                    *)
(*   - an optional value (Python None or a value) is a sequence of length  *)
(*     0 (None) or 1 (the value);                                          *)
(*   - a 3-D point is a triple of integers;                                *)
(*   - a numpy masked array is a record [data, mask] of two sequences;     *)
(*   - a color is a record, see Color2vb / CmapColor;                      *)
(*   - a DataFrame is a record [cols, rows] of typed cells, see Table;     *)
(*   - world coordinates are integers in units of 1/Unit mm.               *)
(***************************************************************************)
EXTENDS Integers, Sequences, FiniteSets, TLC

VARIABLES
    \* ---- Projections (projection.py) ----
    proj_obj,         \* self._proj_obj : registered id -> object mesh
    proj_radius,      \* self._proj_radius
    proj_on,          \* self._proj_on
    proj_type,        \* self._proj_type
    proj_contribute,  \* self._proj_contribute
    proj_mask_color,  \* self._proj_mask_color
    proj_data,        \* self._proj_data (optional masked array)
    vsh,              \* self._vsh (optional shape)
    sources,          \* self.sources : sequence of [xyz, data, masked]
    sources_minmax,   \* self.sources._minmax
    cb,               \* self.cbobjs._objs['Projection'] (CbarBase fields)
    proj_ret,         \* outcome of the last call on the Projections object
    \* ---- RoiObj (roi_obj.py) ----
    offset,           \* self._offset
    vol,              \* self.vol
    n_roi,            \* self._n_roi
    hdr,              \* self.hdr
    system,           \* self.system
    ref,              \* self.ref : the label table (DataFrame)
    analysis,         \* self.analysis : the localization table (DataFrame)
    roi_name,         \* name given to the last change_roi_object
    roi_ret,          \* the last call on the RoiObj, its arguments and outcome
    roi_mesh,         \* self.mesh (None while the attribute does not exist)
    surf,             \* arguments and local arrays of the last get_roi_vertices
    \* ---- CbarBase (CbarBase.py) ----
    cb_seen,          \* the clim given to __init__ and the data of the last
                      \* set_data that returned
    cb_ret            \* the last call on the colorbar object and its outcome

pvars == <<proj_obj, proj_radius, proj_on, proj_type, proj_contribute,
           proj_mask_color, proj_data, vsh, sources, sources_minmax, cb,
           proj_ret>>

rvars == <<offset, vol, n_roi, hdr, system, ref, analysis, roi_name, roi_ret,
           roi_mesh, surf>>

cvars == <<cb_seen, cb_ret>>

vars == <<pvars, rvars, cvars>>

-----------------------------------------------------------------------------
(* Generic helpers *)

None == <<>>

Some(x) == <<x>>

Range(s) == {s[i] : i \in 1..Len(s)}

SetMin(S) == CHOOSE m \in S : \A x \in S : m <= x

SetMax(S) == CHOOSE m \in S : \A x \in S : m >= x

SeqsUpTo(S, n) == UNION {[1..k -> S] : k \in 0..n}

-----------------------------------------------------------------------------
(* Bounds of the model *)

\* largest number of sources of the source object
MaxSources == 2

\* largest number of consecutive run_projection calls that is counted
MaxRepeat == 2

\* largest number of values of the data given to set_data
MaxData == 2

\* largest number of levels of one get_roi_vertices call
MaxLevels == 2

-----------------------------------------------------------------------------
(* Colors (utils/color.py is an external collaborator of the three files)  *)

\* a color specification as a caller gives it: a name, or an RGB(A) tuple
ColorName(n) == [name |-> n, rgb |-> <<>>]

ColorTuple(t) == [name |-> "", rgb |-> t]

\* RGB of the named colors, in tenths
NamedRGB(n) ==
    CASE n = "gray" -> <<5, 5, 5>>
      [] n = "red" -> <<10, 0, 0>>
      [] n = "orange" -> <<10, 6, 0>>
      [] n = "white" -> <<10, 10, 10>>
      [] OTHER -> <<0, 0, 0>>

\* color2vb : any color specification -> RGBA (alpha defaults to 1.0)
Color2vb(c) ==
    LET t == IF c.rgb = <<>> THEN NamedRGB(c.name) ELSE c.rgb
    IN IF Len(t) = 3 THEN t \o <<10>> ELSE t

\* None given as a color
NoColor == ColorName("")

\* color2tuple(c, float) : the tuple that the call returns for the color c.
\* Which components, alpha and precision the tuple has is decided outside the
\* three files: the value is kept as the call and its argument, and nothing
\* is derived from it.
Color2Tuple(c) == [call |-> "color2tuple", color |-> c, astype |-> "float"]

\* a vertex color: a fixed RGBA, or the colormap `cmap` at level num/den
RgbaColor(t) == [kind |-> "rgba", cmap |-> "", num |-> 0, den |-> 0, rgba |-> t]

CmapColor(cmap, num, den) ==
    [kind |-> "cmap", cmap |-> cmap, num |-> num, den |-> den, rgba |-> <<>>]

Clamp(x, lo, hi) == IF x < lo THEN lo ELSE IF x > hi THEN hi ELSE x

\* array2colormap(x, cmap, clim, vmin, under, vmax, over) : one color per
\* value; the value is clamped to clim and sent through cmap, values under
\* vmin take `under`, values over vmax take `over`.
Array2Colormap(x, kw) ==
    LET vals == Range(x.data)
        clim == IF kw.clim = None THEN <<SetMin(vals), SetMax(vals)>>
                ELSE kw.clim[1]
        one(v) ==
            IF kw.vmax # None /\ v > kw.vmax[1] THEN RgbaColor(Color2vb(kw.over))
            ELSE IF kw.vmin # None /\ v < kw.vmin[1]
                 THEN RgbaColor(Color2vb(kw.under))
            ELSE CmapColor(kw.cmap, Clamp(v, clim[1], clim[2]) - clim[1],
                           clim[2] - clim[1])
    IN [i \in 1..Len(x.data) |-> one(x.data[i])]

-----------------------------------------------------------------------------
(* Colorbar state, CbarBase *)

\* CbarBase.__init__ : the color fields of a colorbar object
CbarInit(cmap, clim, vmin, vmax, under, over) ==
    [cmap |-> cmap, clim |-> clim, vmin |-> vmin, vmax |-> vmax,
     under |-> under, over |-> over, minmax |-> clim]

\* CbarBase.to_kwargs
ToKwargs(c) ==
    [cmap |-> c.cmap, clim |-> c.clim, vmin |-> c.vmin, under |-> c.under,
     vmax |-> c.vmax, over |-> c.over]

\* None given as cmap
NoCmap == ""

\* data.min(), data.max() of a plain array
DataMinMax(data) == <<SetMin(Range(data)), SetMax(Range(data))>>

SetDataKeepRange(c, data, cmap, clim, vmin, vmax, under, over) ==
    [fields |-> [c EXCEPT !.cmap = cmap, !.clim = clim, !.vmin = vmin,
                          !.vmax = vmax, !.under = under, !.over = over],
     status |-> IF data = <<>> THEN "ValueError" ELSE "ok"]

\* CbarBase.set_data : the six color fields take the arguments, then the
\* range of the data is cached; min() of an empty array raises ValueError
\* after the six assignments
SetData(c, data, cmap, clim, vmin, vmax, under, over) ==
    LET c1 == [c EXCEPT !.cmap = cmap, !.clim = clim, !.vmin = vmin,
                        !.vmax = vmax, !.under = under, !.over = over]
    IN IF data = <<>> THEN [fields |-> c1, status |-> "ValueError"]
       ELSE [fields |-> [c1 EXCEPT !.minmax = Some(DataMinMax(data))],
             status |-> "ok"]

\* CbarBase.autoscale
Autoscale(c) == [c EXCEPT !.clim = c.minmax]

\* CbarBase.to_dict : the entries of the color fields (the text and layout
\* entries are copies of fields that no operation of the model reads)
ToDict(c) ==
    [cmap |-> c.cmap, clim |-> c.clim, vmin |-> c.vmin,
     under |-> Color2Tuple(c.under), vmax |-> c.vmax,
     over |-> Color2Tuple(c.over)]

-----------------------------------------------------------------------------
(* Source object: the collaborator behind self.sources *)

Sign(n) == IF n < 0 THEN 0 - 1 ELSE IF n > 0 THEN 1 ELSE 0

Dist2(p, q) ==
    (p[1] - q[1]) * (p[1] - q[1]) + (p[2] - q[2]) * (p[2] - q[2])
    + (p[3] - q[3]) * (p[3] - q[3])

\* source s reaches vertex p : within the radius and, unless sources may
\* contribute to both hemispheres, on the hemisphere of the source
Reaches(s, p, r, c) ==
    /\ Dist2(s.xyz, p) <= r * r
    /\ (c \/ Sign(s.xyz[1]) = Sign(p[1]))

\* indices of the sources of srcs with the given masked flag reaching p
Contributing(srcs, p, r, c, masked) ==
    {k \in 1..Len(srcs) : srcs[k].masked = masked /\ Reaches(srcs[k], p, r, c)}

RECURSIVE SumData(_, _)
SumData(srcs, K) ==
    IF K = {} THEN 0
    ELSE LET k == CHOOSE j \in K : TRUE
         IN srcs[k].data + SumData(srcs, K \ {k})

\* sources.project_modulation(v, r, c) : activity of the sources in reach,
\* masked where no source contributes
ProjectModulation(srcs, v, r, c) ==
    [data |-> [i \in 1..Len(v) |->
                  SumData(srcs, Contributing(srcs, v[i], r, c, FALSE))],
     mask |-> [i \in 1..Len(v) |->
                  Contributing(srcs, v[i], r, c, FALSE) = {}]]

\* sources.project_repartition(v, r, c) : number of contributing sources,
\* masked where no source contributes
ProjectRepartition(srcs, v, r, c) ==
    [data |-> [i \in 1..Len(v) |->
                  Cardinality(Contributing(srcs, v[i], r, c, FALSE))],
     mask |-> [i \in 1..Len(v) |->
                  Contributing(srcs, v[i], r, c, FALSE) = {}]]

\* sources.is_masked
IsMasked(srcs) == \E k \in 1..Len(srcs) : srcs[k].masked

\* sources.get_masked_index(v, r, c) : vertices reached by a masked source
GetMaskedIndex(srcs, v, r, c) ==
    {i \in 1..Len(v) : Contributing(srcs, v[i], r, c, TRUE) # {}}

MaskedMinOfData(mod) == Some(SetMin(Range(mod.data)))

\* numpy.ma min()/max() : over the entries that are not masked; the masked
\* constant (None here) when every entry is masked
MaskedMin(mod) ==
    LET S == {mod.data[i] : i \in {j \in 1..Len(mod.data) : ~mod.mask[j]}}
    IN IF S = {} THEN None ELSE Some(SetMin(S))

MaskedMax(mod) ==
    LET S == {mod.data[i] : i \in {j \in 1..Len(mod.data) : ~mod.mask[j]}}
    IN IF S = {} THEN None ELSE Some(SetMax(S))

\* mod.mask.sum()
MaskSum(mod) == Cardinality({i \in 1..Len(mod.mask) : mod.mask[i]})

-----------------------------------------------------------------------------
(* Registered objects: an insertion-ordered dict id -> object with a mesh *)

Keys(d) == [i \in 1..Len(d) |-> d[i].key]

HasKey(d, k) == \E i \in 1..Len(d) : d[i].key = k

KeyIndex(d, k) == CHOOSE i \in 1..Len(d) : d[i].key = k

MeshOf(d, k) == d[KeyIndex(d, k)].mesh

\* vertices of the mesh of the objects that can be registered
MeshVertices(id) ==
    IF id = "brain"
    THEN << <<0 - 1, 0, 0>>, <<2, 0, 0>>, <<5, 0, 0>>, <<8, 0, 0>> >>
    ELSE << <<0 - 2, 0, 0>>, <<2, 0, 0>> >>

\* a mesh as BrainMesh creates it: no mask, uniform color
NewMesh(v) ==
    [vertices |-> v,
     color |-> [i \in 1..Len(v) |-> RgbaColor(Color2vb(ColorName("white")))],
     mask |-> [i \in 1..Len(v) |-> 0],
     mask_color |-> Color2vb(ColorName("orange"))]

-----------------------------------------------------------------------------
(* Projections (brain/base/projection.py) *)

\* a radius given as a number, and one that is not a number
Num(n) == [isnum |-> TRUE, val |-> n]

NotNum == [isnum |-> FALSE, val |-> 0]

RadiusValues == {Num(1), Num(3), NotNum}

TypeValues == {"activity", "repartition", "other"}

ObjectIds == {"brain", "roi"}

ProjOnValues == ObjectIds \cup {"sources"}

ValidConfigRadiusOnly(radius, type) == radius.isnum

\* the two checks at the entry of _run_source_projection (and of __init__)
ValidConfig(radius, type) ==
    /\ radius.isnum
    /\ type \in {"activity", "repartition"}

\* outcome of a call: the operation, "ok" or the exception raised, the
\* object and the ids its message names, and the number of completed
\* run_projection calls in a row
Ret(op, status, obj, ids, runs) ==
    [op |-> op, status |-> status, obj |-> obj, ids |-> ids, runs |-> runs]

GetObjVerticesFallback(d, obj) ==
    IF HasKey(d, obj) THEN [found |-> TRUE, v |-> MeshOf(d, obj).vertices, ids |-> <<>>]
    ELSE IF Len(d) > 0 THEN [found |-> TRUE, v |-> d[1].mesh.vertices, ids |-> <<>>]
    ELSE [found |-> FALSE, v |-> <<>>, ids |-> Keys(d)]

\* _get_obj_vertices : the vertices of the registered object, or the
\* ValueError that lists the registered ids
GetObjVertices(d, obj) ==
    IF HasKey(d, obj)
    THEN [found |-> TRUE, v |-> MeshOf(d, obj).vertices, ids |-> <<>>]
    ELSE [found |-> FALSE, v |-> <<>>, ids |-> Keys(d)]

ModulationSwapped(type, srcs, v, r, c) ==
    IF type = "activity" THEN ProjectRepartition(srcs, v, r, c)
    ELSE ProjectModulation(srcs, v, r, c)

\* the dispatch on the projection type
Modulation(type, srcs, v, r, c) ==
    IF type = "activity" THEN ProjectModulation(srcs, v, r, c)
    ELSE ProjectRepartition(srcs, v, r, c)

CleanSourceProjectionKeep(old) == old

\* _clean_source_projection : the stored result is dropped
CleanSourceProjection(old) == None

NewProjDataAccumulate(old, mod) ==
    IF old = None THEN Some(mod)
    ELSE Some([mod EXCEPT !.data =
                 [i \in 1..Len(mod.data) |->
                     mod.data[i]
                     + (IF i \in 1..Len(old[1].data) THEN old[1].data[i] ELSE 0)]])

\* _clean_source_projection followed by self._proj_data = mod : the stored
\* result is the one of this call, whatever was stored before
NewProjData(old, mod) ==
    LET cleaned == None
    IN Some(mod)

ProjectionMaskKeepMasked(n, is_masked, mask_idx, mod) ==
    LET m0 == [i \in 1..n |-> 0]
        m1 == IF is_masked
              THEN [i \in 1..n |-> IF i \in mask_idx THEN 2 ELSE m0[i]]
              ELSE m0
    IN IF MaskSum(mod) # 0
       THEN [i \in 1..n |-> IF ~mod.mask[i] /\ m1[i] # 2 THEN 1 ELSE m1[i]]
       ELSE m1

ProjectionMaskNotNegated(n, is_masked, mask_idx, mod) ==
    LET m0 == [i \in 1..n |-> 0]
        m1 == IF is_masked
              THEN [i \in 1..n |-> IF i \in mask_idx THEN 2 ELSE m0[i]]
              ELSE m0
    IN IF MaskSum(mod) # 0
       THEN [i \in 1..n |-> IF mod.mask[i] THEN 1 ELSE m1[i]]
       ELSE m1

\* the mask of the mesh: zeros, 2 at the vertices of mask_idx when there are
\* masked sources, then 1 at mask[~mod.mask] when mod.mask.sum() is not 0
ProjectionMask(n, is_masked, mask_idx, mod) ==
    LET m0 == [i \in 1..n |-> 0]
        m1 == IF is_masked
              THEN [i \in 1..n |-> IF i \in mask_idx THEN 2 ELSE m0[i]]
              ELSE m0
    IN IF MaskSum(mod) # 0
       THEN [i \in 1..n |-> IF ~mod.mask[i] THEN 1 ELSE m1[i]]
       ELSE m1

\* _projection_to_color : the color array of the stored projection under the
\* arguments of the 'Projection' colorbar
ProjectionToColor(data, c) == Array2Colormap(data, ToKwargs(c))

Runs(ret) == IF ret.op = "run" /\ ret.status = "ok" THEN ret.runs ELSE 0

\* _run_source_projection
RunSourceProjection ==
    /\ UNCHANGED <<rvars, cvars>>
    /\ IF ~ValidConfig(proj_radius, proj_type)
       THEN /\ proj_ret' = Ret("run", "AssertionError", "", <<>>, 0)
            /\ UNCHANGED <<proj_obj, proj_radius, proj_on, proj_type,
                           proj_contribute, proj_mask_color, proj_data, vsh,
                           sources, sources_minmax, cb>>
       ELSE LET got == GetObjVertices(proj_obj, proj_on) IN
            IF ~got.found
            THEN /\ proj_data' = CleanSourceProjection(proj_data)
                 /\ proj_ret' = Ret("run", "ValueError", proj_on, got.ids, 0)
                 /\ UNCHANGED <<proj_obj, proj_radius, proj_on, proj_type,
                                proj_contribute, proj_mask_color, vsh, sources,
                                sources_minmax, cb>>
            ELSE LET v == got.v
                     r == proj_radius.val
                     c == proj_contribute
                     mod == Modulation(proj_type, sources, v, r, c)
                     data == NewProjData(proj_data, mod)
                 IN /\ vsh' = Some(<<Len(v), 3>>)
                    /\ proj_data' = data
                    /\ sources_minmax' = <<MaskedMin(mod), MaskedMax(mod)>>
                    /\ IF ~HasKey(proj_obj, proj_on)
                       THEN /\ proj_ret' = Ret("run", "KeyError", proj_on, <<>>, 0)
                            /\ UNCHANGED proj_obj
                       ELSE LET k == KeyIndex(proj_obj, proj_on)
                                mesh == proj_obj[k].mesh
                                n == Len(mesh.vertices)
                                ism == IsMasked(sources)
                                idx == IF ism THEN GetMaskedIndex(sources, v, r, c)
                                       ELSE {}
                                mask == ProjectionMask(n, ism, idx, mod)
                                color == ProjectionToColor(data[1], cb)
                            IN /\ proj_obj' =
                                     [proj_obj EXCEPT ![k].mesh =
                                         [mesh EXCEPT
                                             !.mask_color =
                                                 IF ism THEN proj_mask_color ELSE @,
                                             !.mask = mask,
                                             !.color = color]]
                               /\ proj_ret' =
                                     Ret("run", "ok", proj_on, <<>>,
                                         IF Runs(proj_ret) < MaxRepeat
                                         THEN Runs(proj_ret) + 1 ELSE MaxRepeat)
                    /\ UNCHANGED <<proj_radius, proj_on, proj_type,
                                   proj_contribute, proj_mask_color, sources, cb>>

\* an object with a mesh is registered under its id
RegisterObject(id) ==
    /\ UNCHANGED <<rvars, cvars>>
    /\ ~HasKey(proj_obj, id)
    /\ proj_obj' = Append(proj_obj, [key |-> id, mesh |-> NewMesh(MeshVertices(id))])
    /\ proj_ret' = Ret("register", "ok", id, <<>>, 0)
    /\ UNCHANGED <<proj_radius, proj_on, proj_type, proj_contribute,
                   proj_mask_color, proj_data, vsh, sources, sources_minmax, cb>>

\* the projection settings are attributes that the caller assigns
SetProjRadius(r) ==
    /\ UNCHANGED <<rvars, cvars>>
    /\ r # proj_radius
    /\ proj_radius' = r
    /\ proj_ret' = Ret("config", "ok", "", <<>>, 0)
    /\ UNCHANGED <<proj_obj, proj_on, proj_type, proj_contribute,
                   proj_mask_color, proj_data, vsh, sources, sources_minmax, cb>>

SetProjOn(id) ==
    /\ UNCHANGED <<rvars, cvars>>
    /\ id # proj_on
    /\ proj_on' = id
    /\ proj_ret' = Ret("config", "ok", "", <<>>, 0)
    /\ UNCHANGED <<proj_obj, proj_radius, proj_type, proj_contribute,
                   proj_mask_color, proj_data, vsh, sources, sources_minmax, cb>>

SetProjType(t) ==
    /\ UNCHANGED <<rvars, cvars>>
    /\ t # proj_type
    /\ proj_type' = t
    /\ proj_ret' = Ret("config", "ok", "", <<>>, 0)
    /\ UNCHANGED <<proj_obj, proj_radius, proj_on, proj_contribute,
                   proj_mask_color, proj_data, vsh, sources, sources_minmax, cb>>

\* the sources a source object can hold
SourcePositions == {<<0 - 3, 0, 0>>, <<1, 0, 0>>}

SourceData == {2}

SourcePool == [xyz : SourcePositions, data : SourceData, masked : BOOLEAN]

\* the order of the sources does not matter to a projection: one sequence
\* stands for all its permutations
SourceRank(src) ==
    (IF src.xyz[1] < 0 THEN 0 ELSE 2) + (IF src.masked THEN 1 ELSE 0)

SourceSets ==
    {q \in SeqsUpTo(SourcePool, MaxSources) \ {<<>>} :
        \A i \in 1..(Len(q) - 1) : SourceRank(q[i]) <= SourceRank(q[i + 1])}

\* the 'Projection' colorbar objects of the model
ProjectionCbars ==
    {CbarInit("viridis", Some(<<0, 1>>), vmin, vmax,
              ColorName("gray"), ColorName("red")) :
        vmin \in {None}, vmax \in {Some(1)}}

\* the scenario of C10: one source at distance 2 of vertex 0 of the brain
\* mesh and farther than 3 from the other three vertices
ScenarioSources == <<[xyz |-> <<0 - 3, 0, 0>>, data |-> 2, masked |-> FALSE]>>

-----------------------------------------------------------------------------
(* RoiObj (objects/roi_obj.py): volumes, affines and tables *)

\* largest number of points of one localize_sources call
MaxPoints == 1

\* widest localization table on which localize_sources is still called
MaxCols == 6

\* coordinates in world space are kept in units of 1/Unit
Unit == 10000

\* a volume is its shape, the value that fills it and the voxels that hold
\* another value (pairs <<voxel, value>>)
Volume(shape, fill, special) ==
    [shape |-> shape, fill |-> fill, special |-> special]

Ndim(v) == Len(v.shape)

\* vol[i, j, k] for a voxel inside the volume
VolAt(v, idx) ==
    IF \E p \in v.special : p[1] = idx
    THEN (CHOOSE p \in v.special : p[1] = idx)[2]
    ELSE v.fill

\* Python indexing along an axis of size n: a negative index counts from
\* the end, an index outside [-n, n) raises IndexError
IndexOk(i, n) == (0 - n) <= i /\ i < n

PyIndex(i, n) == IF i < 0 THEN i + n ELSE i

\* an affine of the model: a uniform voxel size and a translation; shape is
\* the shape of the array given as hdr
Affine(shape, scale, trans) == [shape |-> shape, scale |-> scale, trans |-> trans]

\* np.eye(4)
Eye4 == Affine(<<4, 4>>, 1, <<0, 0, 0>>)

\* np.round of the rational num/den, den > 0 : to the nearest integer,
\* halves to the even one
RoundHalfEven(num, den) ==
    LET q == num \div den
        r == num - q * den
    IN IF 2 * r < den THEN q
       ELSE IF 2 * r > den THEN q + 1
       ELSE IF q % 2 = 0 THEN q ELSE q + 1

\* mni2tal : the MNI to Talairach transform, a different zoom above and below
\* the AC plane; the point is in mm, the result in 1/Unit mm
Mni2Tal(p) ==
    IF p[3] >= 0
    THEN <<9900 * p[1], 9688 * p[2] + 460 * p[3],
           (0 - 485) * p[2] + 9189 * p[3]>>
    ELSE <<9900 * p[1], 9688 * p[2] + 420 * p[3],
           (0 - 485) * p[2] + 8390 * p[3]>>

\* xyz after the conversion of line 185, in 1/Unit mm
WorldOf(p, sys) ==
    IF sys = "tal" THEN Mni2Tal(p)
    ELSE <<Unit * p[1], Unit * p[2], Unit * p[3]>>

\* np.round(np.linalg.lstsq(hdr, xyz[:, k])[0][0:-1]).astype(int) : the
\* voxel index of a world point
SubOf(h, w) ==
    [i \in 1..3 |-> RoundHalfEven(w[i] - Unit * h.trans[i], Unit * h.scale)]

\* RoiObj.__ge__ : shape >= idx on the three axes
RoiGe(shape, idx) ==
    shape[1] >= idx[1] /\ shape[2] >= idx[2] /\ shape[3] >= idx[3]

\* the voxel index is inside the volume
InVolume(shape, idx) == \A i \in 1..3 : 0 <= idx[i] /\ idx[i] < shape[i]

\* cells of a DataFrame
StrCell(str) == [t |-> "str", s |-> str, n |-> 0]

IntCell(i) == [t |-> "int", s |-> "", n |-> i]

CoordCell(c) == [t |-> "coord", s |-> "", n |-> c]

NaN == [t |-> "nan", s |-> "", n |-> 0]

\* a DataFrame: the column names (that may repeat) and the rows, each row a
\* sequence of cells, one per column; row k of Python is rows[k + 1]
Table(cols, rows) == [cols |-> cols, rows |-> rows]

\* pd.DataFrame(label_dict, columns=cols) for a plain array of labels
RefTable(label, index) ==
    [i \in 1..Len(index) |-> [label |-> label[i], index |-> index[i]]]

RefCols == <<"label", "index">>

\* the columns of the table of a first localize_sources call
FirstCallCols == <<"Text">> \o RefCols \o <<"X", "Y", "Z">>

FindRoiLabelByPosition(r, vol_idx) ==
    IF 0 <= vol_idx /\ vol_idx < Len(r) THEN Some(r[vol_idx + 1]) ELSE None

\* _find_roi_label : the first row of ref whose index is vol_idx, or None
FindRoiLabel(r, vol_idx) ==
    LET m == {i \in 1..Len(r) : r[i].index = vol_idx}
    IN IF m # {} THEN Some(r[SetMin(m)]) ELSE None

\* self.analysis.loc[k] = location : the cells of the row, aligned on the
\* column names (None fills the row with NaN)
RowOf(cols, loc) ==
    [j \in 1..Len(cols) |->
        IF loc = None THEN NaN
        ELSE IF cols[j] = "label" THEN StrCell(loc[1].label)
        ELSE IF cols[j] = "index" THEN IntCell(loc[1].index)
        ELSE NaN]

\* row k is replaced when it exists and appended when it does not
SetRow(tab, k, loc) ==
    IF k + 1 <= Len(tab.rows)
    THEN Table(tab.cols, [tab.rows EXCEPT ![k + 1] = RowOf(tab.cols, loc)])
    ELSE Table(tab.cols, Append(tab.rows, RowOf(tab.cols, loc)))

\* self.analysis[name] = values, for as many values as rows: every column of
\* that name is overwritten, a new name is a new last column
SetColumn(tab, name, values) ==
    IF \E j \in 1..Len(tab.cols) : tab.cols[j] = name
    THEN Table(tab.cols,
               [i \in 1..Len(tab.rows) |->
                   [j \in 1..Len(tab.cols) |->
                       IF tab.cols[j] = name THEN values[i] ELSE tab.rows[i][j]]])
    ELSE Table(Append(tab.cols, name),
               [i \in 1..Len(tab.rows) |-> Append(tab.rows[i], values[i])])

\* positions of the columns that self.analysis[names] selects: for every
\* requested name in turn, every column of that name
RECURSIVE SelectPositions(_, _)
SelectPositions(cols, names) ==
    IF names = <<>> THEN <<>>
    ELSE SelectSeq([j \in 1..Len(cols) |-> j],
                   LAMBDA j : cols[j] = Head(names))
         \o SelectPositions(cols, Tail(names))

SelectColumns(tab, names) ==
    LET pos == SelectPositions(tab.cols, names)
    IN Table([j \in 1..Len(pos) |-> tab.cols[pos[j]]],
             [i \in 1..Len(tab.rows) |->
                 [j \in 1..Len(pos) |-> tab.rows[i][pos[j]]]])

\* bad_patterns = [-1, 'undefined', 'None'] and NaN (fillna)
IsBadCell(c) ==
    \/ c.t = "nan"
    \/ c.t = "int" /\ c.n = 0 - 1
    \/ c.t = "coord" /\ c.n = 0 - Unit
    \/ c.t = "str" /\ c.s \in {"undefined", "None"}

ReplaceCell(c, replace_with) ==
    IF IsBadCell(c) THEN StrCell(replace_with) ELSE c

\* fillna(replace_with) and replace(k, replace_with) for the bad patterns
ReplaceBad(tab, replace_with) ==
    Table(tab.cols,
          [i \in 1..Len(tab.rows) |->
              [j \in 1..Len(tab.cols) |-> ReplaceCell(tab.rows[i][j], replace_with)]])

\* source_name = ['s' + str(k) for k in range(n_sources)]
SourceNames == <<"s0", "s1", "s2", "s3", "s4", "s5">>

-----------------------------------------------------------------------------
(* RoiObj (objects/roi_obj.py): the two operations *)

\* the volume of the scenario and a 2-dimensional array
VolScenario == Volume(<<10, 10, 10>>, 1, {<< <<5, 5, 5>>, 2 >>})

VolFlat == Volume(<<2, 2>>, 1, {})

\* the arguments of the change_roi_object calls: two valid custom volumes,
\* one in Talairach space, the two atlases, and one call for each check
\* that can fail
LoadArg(name, v, label, index, h, sys) ==
    [name |-> name, vol |-> v, label |-> label, index |-> index, hdr |-> h,
     system |-> sys]

Hdr2mm == Some(Affine(<<4, 4>>, 2, <<1, 0, 0>>))

Hdr3x3 == Some(Affine(<<3, 3>>, 1, <<0, 0, 0>>))

LoadValues ==
    {LoadArg("custom", VolScenario, <<"A", "B">>, <<1, 2>>, None, "mni"),
     LoadArg("custom", VolScenario, <<"None">>, <<2>>, Hdr2mm, "mni"),
     LoadArg("custom", VolScenario, <<"A", "B">>, <<1, 2>>, None, "tal"),
     LoadArg("brodmann", VolFlat, <<>>, <<>>, None, "mni"),
     LoadArg("talairach", VolFlat, <<>>, <<>>, None, "mni"),
     LoadArg("custom", VolFlat, <<"A", "B">>, <<1, 2>>, None, "mni"),
     LoadArg("custom", VolScenario, <<"A">>, <<1, 2>>, None, "mni"),
     LoadArg("custom", VolScenario, <<"None">>, <<2>>, Hdr3x3, "mni"),
     LoadArg("custom", VolScenario, <<"None">>, <<2>>, Hdr2mm, "scanner")}

\* load_predefined_roi(name) : the content of the atlas files, here two small
\* atlases of the shape of the scenario volume
PredefinedRoi(name) ==
    IF name = "talairach"
    THEN [vol |-> Volume(<<10, 10, 10>>, 2, {<< <<5, 5, 4>>, 3 >>}),
          label |-> <<"A", "B">>, index |-> <<1, 2>>,
          hdr |-> Some(Eye4), system |-> "tal"]
    ELSE [vol |-> Volume(<<10, 10, 10>>, 0, {<< <<5, 5, 5>>, 1 >>}),
          label |-> <<"A", "B">>, index |-> <<1, 2>>,
          hdr |-> Some(Eye4), system |-> "mni"]

\* self._offset = -1 if name == 'talairach' else 0
OffsetOf(name) == IF name = "talairach" THEN 0 - 1 ELSE 0

\* the fields of the object as a record
RoiFields ==
    [offset |-> offset, vol |-> vol, n_roi |-> n_roi, hdr |-> hdr,
     system |-> system, ref |-> ref, analysis |-> analysis]

\* change_roi_object : the fields after the call and its outcome; every
\* assignment made before a failing assert stays
LoadResult(cur, name, a_vol, a_label, a_index, a_hdr, a_system) ==
    LET pre == PredefinedRoi(name)
        isPre == name \in {"brodmann", "talairach", "aal"}
        v == IF isPre THEN pre.vol ELSE a_vol
        l == IF isPre THEN pre.label ELSE a_label
        x == IF isPre THEN pre.index ELSE a_index
        h == IF isPre THEN pre.hdr ELSE a_hdr
        s == IF isPre THEN pre.system ELSE a_system
        f1 == [cur EXCEPT !.offset = OffsetOf(name)]
        f2 == [f1 EXCEPT !.vol = v, !.n_roi = Len(x),
                         !.hdr = IF h = None THEN Eye4 ELSE h[1]]
        f3 == [f2 EXCEPT !.system = s, !.ref = RefTable(l, x),
                         !.analysis = Table(RefCols, <<>>)]
    IN IF Ndim(v) # 3 THEN [fields |-> f1, status |-> "AssertionError"]
       ELSE IF Len(x) # Len(l) THEN [fields |-> f1, status |-> "AssertionError"]
       ELSE IF f2.hdr.shape # <<4, 4>>
            THEN [fields |-> f2, status |-> "AssertionError"]
       ELSE IF s \notin {"mni", "tal"}
            THEN [fields |-> f2, status |-> "AssertionError"]
       ELSE [fields |-> f3, status |-> "ok"]

\* outcome of a call on the RoiObj: the operation, "ok" or the exception, and
\* the arguments (name of a load; points and replace_bad of a localization)
RoiRet(op, status, name, xyz, replace_bad) ==
    [op |-> op, status |-> status, name |-> name, xyz |-> xyz,
     replace_bad |-> replace_bad]

ChangeRoiObject(name, a_vol, a_label, a_index, a_hdr, a_system) ==
    \E res \in {LoadResult(RoiFields, name, a_vol, a_label, a_index, a_hdr,
                           a_system)} :
       /\ offset' = res.fields.offset
       /\ vol' = res.fields.vol
       /\ n_roi' = res.fields.n_roi
       /\ hdr' = res.fields.hdr
       /\ system' = res.fields.system
       /\ ref' = res.fields.ref
       /\ analysis' = res.fields.analysis
       /\ roi_name' = name
       /\ roi_ret' = RoiRet("load", res.status, name, <<>>, FALSE)
       /\ UNCHANGED <<roi_mesh, surf>>
       /\ UNCHANGED <<pvars, cvars>>

\* the loop over the sources, from source k on: the table after the loop, or
\* the exception that stopped it and the table at that moment
RECURSIVE LocalizeLoop(_, _, _, _)
LocalizeLoop(tab, k, w, f) ==
    IF k >= Len(w) THEN [tab |-> tab, status |-> "ok"]
    ELSE IF f.hdr.shape # <<4, 4>> THEN [tab |-> tab, status |-> "LinAlgError"]
    ELSE LET sub == SubOf(f.hdr, w[k + 1])
             sh == f.vol.shape
         IN IF RoiGe(sh, sub)
            THEN IF \A i \in 1..3 : IndexOk(sub[i], sh[i])
                 THEN LET vox == [i \in 1..3 |-> PyIndex(sub[i], sh[i])]
                          idx_vol == VolAt(f.vol, vox) + f.offset
                      IN LocalizeLoop(SetRow(tab, k, FindRoiLabel(f.ref, idx_vol)),
                                      k + 1, w, f)
                 ELSE [tab |-> tab, status |-> "IndexError"]
            ELSE LocalizeLoop(SetRow(tab, k, None), k + 1, w, f)

\* localize_sources(xyz, replace_bad=...) with the default names, patterns
\* and replacement
LocalizeResult(f, xyz, replace_bad) ==
    LET n == Len(xyz)
        w == [k \in 1..n |-> WorldOf(xyz[k], f.system)]
        loop == LocalizeLoop(f.analysis, 0, w, f)
        new_col == <<"Text">> \o loop.tab.cols \o <<"X", "Y", "Z">>
        t1 == SetColumn(loop.tab, "Text", [k \in 1..n |-> StrCell(SourceNames[k])])
        t2 == SetColumn(t1, "X", [k \in 1..n |-> CoordCell(w[k][1])])
        t3 == SetColumn(t2, "Y", [k \in 1..n |-> CoordCell(w[k][2])])
        t4 == SetColumn(t3, "Z", [k \in 1..n |-> CoordCell(w[k][3])])
        t5 == SelectColumns(t4, new_col)
    IN IF loop.status # "ok" THEN loop
       ELSE IF Len(loop.tab.rows) # n THEN [tab |-> loop.tab, status |-> "ValueError"]
       ELSE [tab |-> IF replace_bad THEN ReplaceBad(t5, "Not found") ELSE t5,
             status |-> "ok"]

LocalizeSources(xyz, replace_bad) ==
    \E res \in {LocalizeResult(RoiFields, xyz, replace_bad)} :
       /\ Len(analysis.cols) <= MaxCols
       /\ analysis' = res.tab
       /\ roi_ret' = RoiRet("localize", res.status, "", xyz, replace_bad)
       /\ UNCHANGED <<offset, vol, n_roi, hdr, system, ref, roi_name, roi_mesh,
                    surf>>
       /\ UNCHANGED <<pvars, cvars>>

\* the points given to localize_sources
PointValues ==
    {<<5, 5, 5>>, <<0, 0, 0>>, <<0 - 1, 0, 0>>, <<10, 0, 0>>, <<11, 0, 0>>}

PointBatches == SeqsUpTo(PointValues, MaxPoints)

-----------------------------------------------------------------------------
(* RoiObj (objects/roi_obj.py): surfaces of the volume *)

\* a level: an int, a float (in tenths) or a list of ints
IntLevel(k) == [kind |-> "int", val |-> k, list |-> <<>>]

FloatLevel(tenths) == [kind |-> "float", val |-> tenths, list |-> <<>>]

ListLevel(l) == [kind |-> "list", val |-> 0, list |-> l]

\* the value of a voxel of value x after the thresholding of
\* _get_roi_vertices: vol[vol != level] = 0 for an int, vol[vol > level] = 0
\* for a float, vol[all(vol != k for k in level)] = 0 for a list
ThresholdValue(level, x) ==
    IF level.kind = "int" THEN (IF x # level.val THEN 0 ELSE x)
    ELSE IF level.kind = "float" THEN (IF 10 * x > level.val THEN 0 ELSE x)
    ELSE IF \A i \in 1..Len(level.list) : x # level.list[i] THEN 0 ELSE x

ThresholdVolume(v, level) ==
    Volume(v.shape, ThresholdValue(level, v.fill),
           {<<q[1], ThresholdValue(level, q[2])>> : q \in v.special})

\* a surface: vertices and faces, a face being three 0-based vertex indices
Surface(v, f) == [v |-> v, f |-> f]

EmptySurface == Surface(<<>>, <<>>)

\* the elements of a set of voxels as a sequence
RECURSIVE VoxelSeq(_)
VoxelSeq(S) ==
    IF S = {} THEN <<>>
    ELSE LET q == CHOOSE x \in S :
                     \A y \in S : x[1] < y[1] \/ (x[1] = y[1] /\ (x[2] < y[2]
                                     \/ (x[2] = y[2] /\ x[3] <= y[3])))
         IN <<q>> \o VoxelSeq(S \ {q})

\* isosurface(smooth_3d(vol, smooth), level=.5) : one closed surface around
\* the volume when its filling value is above .5, else one patch around
\* every voxel above .5, the patches numbered one after the other; nothing
\* for a volume that is 0 everywhere. Every vertex belongs to a face.
RECURSIVE Patches(_, _, _)
Patches(voxels, smooth, acc) ==
    IF voxels = <<>> THEN acc
    ELSE LET q == Head(voxels)
             n == Len(acc.v)
         IN Patches(Tail(voxels), smooth,
                    Surface(acc.v \o << <<q[1] - smooth, q[2], q[3]>>,
                                        <<q[1] + smooth, q[2], q[3]>>,
                                        <<q[1], q[2] + smooth, q[3]>> >>,
                            acc.f \o << <<n, n + 1, n + 2>> >>))

Isosurface(v, smooth) ==
    IF v.fill >= 1
    THEN Surface(<< <<0, 0, 0>>, <<v.shape[1], 0, 0>>, <<0, v.shape[2], 0>>,
                    <<0, 0, v.shape[3]>> >>,
                 << <<0, 1, 2>>, <<0, 1, 3>>, <<0, 2, 3>>, <<1, 2, 3>> >>)
    ELSE Patches(VoxelSeq({q[1] : q \in {r \in v.special : r[2] >= 1}}),
                 smooth, EmptySurface)

\* RoiObj._get_roi_vertices
LevelSurface(v, level, smooth) == Isosurface(ThresholdVolume(v, level), smooth)

\* faces.max()
FacesMax(faces) ==
    SetMax({faces[i][j] : i \in 1..Len(faces), j \in 1..3})

FaceOffsetMax(faces) == FacesMax(faces)

\* what is added to the faces of a level: faces.max() + 1
FaceOffset(faces) == FacesMax(faces) + 1

\* the loop over the levels, from level i on; acc holds vert, faces, color
RECURSIVE ConcatLevels(_, _, _, _, _, _)
ConcatLevels(v, levels, smooth, col_unique, i, acc) ==
    IF i > Len(levels) THEN acc
    ELSE \* one evaluation of the surface of level i
         LET part == CHOOSE x \in {LevelSurface(v, IntLevel(levels[i]), smooth)} :
                        TRUE
             off == FaceOffset(acc.faces)
             f == IF acc.faces # <<>>
                  THEN acc.faces \o [m \in 1..Len(part.f) |->
                                        [j \in 1..3 |-> part.f[m][j] + off]]
                  ELSE part.f
             vt == IF acc.vert # <<>> THEN acc.vert \o part.v ELSE part.v
             col == [m \in 1..Len(part.v) |-> col_unique[i]]
             c == IF acc.color # <<>> THEN acc.color \o col ELSE col
         IN ConcatLevels(v, levels, smooth, col_unique, i + 1,
                         [vert |-> vt, faces |-> f, color |-> c])

\* the first part of get_roi_vertices: the arrays vert, faces and color, or
\* the AssertionError of a float level with unique_color
RoiVerticesResult(v, level, unique_color, smooth, col_unique) ==
    IF ~unique_color
    THEN LET one == LevelSurface(v, level, smooth)
         IN [status |-> "ok", vert |-> one.v, faces |-> one.f, color |-> <<>>]
    ELSE IF level.kind = "float"
    THEN [status |-> "AssertionError", vert |-> <<>>, faces |-> <<>>,
          color |-> <<>>]
    ELSE LET levels == IF level.kind = "int" THEN <<level.val>> ELSE level.list
             all == ConcatLevels(v, levels, smooth, col_unique, 1,
                                 [vert |-> <<>>, faces |-> <<>>, color |-> <<>>])
         IN [status |-> "ok", vert |-> all.vert, faces |-> all.faces,
             color |-> all.color]

\* BrainMesh(vertices=vert, faces=faces) : no mask, uniform color
RoiMesh(vert, faces) ==
    [vertices |-> vert, faces |-> faces,
     mask |-> [i \in 1..Len(vert) |-> 0],
     color |-> [i \in 1..Len(vert) |-> Color2vb(ColorName("white"))]]

HasMeshNever(m) == FALSE

\* hasattr(self, 'mesh')
HasMesh(m) == m # None

\* the arguments and the local arrays of a get_roi_vertices call
Surf(level, unique_color, smooth, plot, col_unique, vert, faces, color) ==
    [level |-> level, unique_color |-> unique_color, smooth |-> smooth,
     plot |-> plot, col_unique |-> col_unique, vert |-> vert, faces |-> faces,
     color |-> color]

NoSurf == Surf(FloatLevel(5), FALSE, 3, FALSE, <<>>, <<>>, <<>>, <<>>)

\* get_roi_vertices(level, unique_color, smooth, plot) ; col_unique is the
\* array drawn by np.random.uniform
GetRoiVertices(level, unique_color, smooth, plot, col_unique) ==
    \E res \in {RoiVerticesResult(vol, level, unique_color, smooth, col_unique)} :
    LET made == IF unique_color
                THEN [RoiMesh(res.vert, res.faces) EXCEPT
                         !.mask = [i \in 1..Len(res.vert) |-> 1],
                         !.color = res.color]
                ELSE RoiMesh(res.vert, res.faces)
    IN /\ roi_ret' = RoiRet("vertices", res.status, "", <<>>, FALSE)
       /\ surf' = Surf(level, unique_color, smooth, plot,
                       IF unique_color /\ res.status = "ok" THEN col_unique
                       ELSE <<>>,
                       res.vert, res.faces, res.color)
       /\ roi_mesh' = IF res.status = "ok" /\ plot /\ res.vert # <<>>
                         /\ ~HasMesh(roi_mesh)
                      THEN Some(made) ELSE roi_mesh
       /\ UNCHANGED <<offset, vol, n_roi, hdr, system, ref, analysis, roi_name>>
       /\ UNCHANGED <<pvars, cvars>>

\* the levels of the calls without unique_color: the default .5, an int and
\* a list
PlainLevels == {FloatLevel(5), IntLevel(2), ListLevel(<<1, 2>>)}

\* the levels of the calls with unique_color: a float (refused), an int, and
\* lists of labels; the scenario volume has voxels of both labels, the
\* 'brodmann' volume of the model has none of label 2
LevelInts == {1, 2}

UniqueLevels ==
    {FloatLevel(5), IntLevel(2)}
    \cup {ListLevel(l) : l \in SeqsUpTo(LevelInts, MaxLevels) \ {<<>>}}

NumLevels(level) == IF level.kind = "list" THEN Len(level.list) ELSE 1

\* two draws of np.random.uniform(.1, .9, (n, 4)) with the last column set
\* to 1, in tenths
ColorDraws(n) ==
    {[i \in 1..n |-> <<i, 5, 9 - i, 10>>], [i \in 1..n |-> <<4, 4, 4, 10>>]}

\* the loads between two extractions: two volumes and a load that fails
SurfLoadValues ==
    {a \in LoadValues :
        \/ a.name = "brodmann"
        \/ (/\ a.vol = VolScenario
            /\ a.label = <<"A", "B">>
            /\ a.hdr = None
            /\ a.system = "mni")
        \/ a.hdr = Hdr3x3}

-----------------------------------------------------------------------------
(* CbarBase (utils/cbar/CbarBase.py): the operations *)

\* outcome of a call on the colorbar object: the operation, "ok" or the
\* exception, and what to_dict returned
CbarRet(op, status, dict) == [op |-> op, status |-> status, dict |-> dict]

\* the ghost of the arguments: clim of __init__, data of the last set_data
\* that returned
CbarSeen(clim, data) == [init_clim |-> clim, data |-> data]

CbarSetData(data, cmap, clim, vmin, vmax, under, over) ==
    LET res == SetData(cb, data, cmap, clim, vmin, vmax, under, over)
    IN /\ cb' = res.fields
       /\ cb_seen' = IF res.status = "ok"
                     THEN [cb_seen EXCEPT !.data = Some(data)] ELSE cb_seen
       /\ cb_ret' = CbarRet("set_data", res.status, None)
       /\ UNCHANGED <<proj_obj, proj_radius, proj_on, proj_type,
                      proj_contribute, proj_mask_color, proj_data, vsh,
                      sources, sources_minmax, proj_ret>>
       /\ UNCHANGED rvars

CbarAutoscale ==
    /\ cb' = Autoscale(cb)
    /\ cb_ret' = CbarRet("autoscale", "ok", None)
    /\ UNCHANGED cb_seen
    /\ UNCHANGED <<proj_obj, proj_radius, proj_on, proj_type, proj_contribute,
                   proj_mask_color, proj_data, vsh, sources, sources_minmax,
                   proj_ret>>
    /\ UNCHANGED rvars

CbarToDict ==
    /\ cb_ret' = CbarRet("to_dict", "ok", Some(ToDict(cb)))
    /\ UNCHANGED <<cb, cb_seen>>
    /\ UNCHANGED <<proj_obj, proj_radius, proj_on, proj_type, proj_contribute,
                   proj_mask_color, proj_data, vsh, sources, sources_minmax,
                   proj_ret>>
    /\ UNCHANGED rvars

\* the values of the data given to set_data and to the color mapping
DataValues == {0, 1, 3}

DataSets == SeqsUpTo(DataValues, MaxData)

\* the color arguments of the set_data calls: the defaults (all None) and
\* given values
CmapClimValues == {<<NoCmap, None>>, <<"plasma", Some(<<0, 2>>)>>}

VminVmaxValues == {<<None, None>>, <<Some(1), Some(2)>>}

UnderOverValues ==
    {<<NoColor, NoColor>>,
     <<ColorName("gray"), ColorTuple(<<10, 0, 0>>)>>,
     <<ColorTuple(<<2, 4, 6, 5>>), ColorName("red")>>}

\* the colorbar objects that are constructed: the defaults, and one with
\* every argument given
CbarValues ==
    {CbarInit("viridis", Some(<<0, 1>>), None, None,
              ColorName("gray"), ColorName("red")),
     CbarInit("plasma", Some(<<1, 3>>), Some(1), Some(2),
              ColorTuple(<<2, 4, 6, 5>>), ColorName("orange"))}

-----------------------------------------------------------------------------
(* Specifications *)

\* the colorbar object of a state where no colorbar operation runs
CbarIdle ==
    /\ cb_seen = CbarSeen(cb.clim, None)
    /\ cb_ret = CbarRet("init", "ok", None)

\* the RoiObj of a state where only the projection runs
RoiDefault ==
    LoadResult([offset |-> 0, vol |-> VolScenario, n_roi |-> 0, hdr |-> Eye4,
                system |-> "mni", ref |-> <<>>, analysis |-> Table(RefCols, <<>>)],
               "brodmann", VolScenario, <<>>, <<>>, None, "mni").fields

RoiIs(f, name) ==
    /\ offset = f.offset
    /\ vol = f.vol
    /\ n_roi = f.n_roi
    /\ hdr = f.hdr
    /\ system = f.system
    /\ ref = f.ref
    /\ analysis = f.analysis
    /\ roi_name = name
    /\ roi_mesh = None
    /\ surf = NoSurf

\* Projections.__init__, with the source object and the colorbar it reads
InitProj ==
    /\ proj_obj = <<>>
    /\ proj_radius \in {r \in RadiusValues : r.isnum}
    /\ proj_on = "brain"
    /\ proj_type \in {"activity", "repartition"}
    /\ proj_contribute \in BOOLEAN
    /\ proj_mask_color = Color2vb(ColorName("gray"))
    /\ proj_data = None
    /\ vsh = None
    /\ sources \in SourceSets
    /\ sources_minmax = <<Some(SetMin({sources[k].data : k \in 1..Len(sources)})),
                          Some(SetMax({sources[k].data : k \in 1..Len(sources)}))>>
    /\ cb \in ProjectionCbars
    /\ proj_ret = Ret("init", "ok", "", <<>>, 0)
    /\ RoiIs(RoiDefault, "brodmann")
    /\ roi_ret = RoiRet("init", "ok", "brodmann", <<>>, FALSE)
    /\ CbarIdle

NextProj ==
    \/ RunSourceProjection
    \/ \E id \in ObjectIds : RegisterObject(id)
    \/ \E r \in RadiusValues : SetProjRadius(r)
    \/ \E id \in ProjOnValues : SetProjOn(id)
    \/ \E t \in TypeValues : SetProjType(t)

SpecProj == InitProj /\ [][NextProj]_vars

\* the Projections object of a state where only the RoiObj is used
ProjIdle ==
    /\ proj_obj = <<>>
    /\ proj_radius = Num(10)
    /\ proj_on = "brain"
    /\ proj_type = "activity"
    /\ proj_contribute = FALSE
    /\ proj_mask_color = Color2vb(ColorName("gray"))
    /\ proj_data = None
    /\ vsh = None
    /\ sources = ScenarioSources
    /\ sources_minmax = <<Some(2), Some(2)>>
    /\ cb = CbarInit("viridis", Some(<<0, 1>>), None, None,
                     ColorName("gray"), ColorName("red"))
    /\ proj_ret = Ret("init", "ok", "", <<>>, 0)

\* RoiObj.__init__ : a change_roi_object that did not raise
InitRoi ==
    /\ \E a \in LoadValues :
          LET res == LoadResult(RoiDefault, a.name, a.vol, a.label, a.index,
                                a.hdr, a.system)
          IN /\ res.status = "ok"
             /\ RoiIs(res.fields, a.name)
             /\ roi_ret = RoiRet("init", "ok", a.name, <<>>, FALSE)
    /\ ProjIdle
    /\ CbarIdle

NextRoi ==
    \/ \E a \in LoadValues :
          ChangeRoiObject(a.name, a.vol, a.label, a.index, a.hdr, a.system)
    \/ \E xyz \in PointBatches, replace_bad \in BOOLEAN :
          LocalizeSources(xyz, replace_bad)

SpecRoi == InitRoi /\ [][NextRoi]_vars

\* the extraction of surfaces: RoiObj.__init__, then get_roi_vertices and
\* change_roi_object calls
NextSurf ==
    \/ \E a \in SurfLoadValues :
          ChangeRoiObject(a.name, a.vol, a.label, a.index, a.hdr, a.system)
    \/ \E level \in PlainLevels, plot \in BOOLEAN :
          GetRoiVertices(level, FALSE, 3, plot, <<>>)
    \/ \E level \in UniqueLevels, plot \in BOOLEAN :
          \E col_unique \in ColorDraws(NumLevels(level)) :
             GetRoiVertices(level, TRUE, 3, plot, col_unique)

\* RoiObj.__init__ with one of these loads
InitSurf ==
    /\ \E a \in SurfLoadValues :
          LET res == LoadResult(RoiDefault, a.name, a.vol, a.label, a.index,
                                a.hdr, a.system)
          IN /\ res.status = "ok"
             /\ RoiIs(res.fields, a.name)
             /\ roi_ret = RoiRet("init", "ok", a.name, <<>>, FALSE)
    /\ ProjIdle
    /\ CbarIdle

SpecSurf == InitSurf /\ [][NextSurf]_vars

\* CbarBase.__init__ ; the Projections object and the RoiObj are not used
InitCbar ==
    /\ cb \in CbarValues
    /\ CbarIdle
    /\ proj_obj = <<>>
    /\ proj_radius = Num(10)
    /\ proj_on = "brain"
    /\ proj_type = "activity"
    /\ proj_contribute = FALSE
    /\ proj_mask_color = Color2vb(ColorName("gray"))
    /\ proj_data = None
    /\ vsh = None
    /\ sources = ScenarioSources
    /\ sources_minmax = <<Some(2), Some(2)>>
    /\ proj_ret = Ret("init", "ok", "", <<>>, 0)
    /\ RoiIs(RoiDefault, "brodmann")
    /\ roi_ret = RoiRet("init", "ok", "brodmann", <<>>, FALSE)

NextCbar ==
    \/ \E data \in DataSets, cc \in CmapClimValues, vv \in VminVmaxValues,
          uo \in UnderOverValues :
          CbarSetData(data, cc[1], cc[2], vv[1], vv[2], uo[1], uo[2])
    \/ CbarAutoscale
    \/ CbarToDict

SpecCbar == InitCbar /\ [][NextCbar]_vars

-----------------------------------------------------------------------------
(* Properties of the projection *)

\* the last call was a run_projection that completed
RunOk == proj_ret.op = "run" /\ proj_ret.status = "ok"

\* after a completed run: the target mesh, the stored result, and the
\* vertices reached by a masked source under the settings of the run
TargetMesh == MeshOf(proj_obj, proj_on)

StoredMod == proj_data[1]

MaskedReached ==
    GetMaskedIndex(sources, TargetMesh.vertices, proj_radius.val, proj_contribute)

SomeUncontributed == \E j \in 1..Len(StoredMod.mask) : StoredMod.mask[j]

\* C1 as stated: after run_projection completes, every vertex reached by a
\* masked source within the radius has mask 2, because 1 is only written where
\* the mask is not already 2 (masked-affected takes priority).
C1_MaskedTakesPriority ==
    RunOk => \A i \in MaskedReached : TargetMesh.mask[i] = 2

\* C1 amended: after run_projection completes, a vertex reached by a masked
\* source has mask 2 when the result's array mask marks it as having no
\* contribution (or when no vertex at all lacks a contribution); when it has a
\* contribution and some vertex has none, the 1 written at mask[~mod.mask]
\* replaces the 2.
C1_MaskedKeptWhereUncontributed ==
    RunOk =>
      \A i \in MaskedReached :
        /\ StoredMod.mask[i] => TargetMesh.mask[i] = 2
        /\ ~StoredMod.mask[i] =>
              TargetMesh.mask[i] = (IF SomeUncontributed THEN 1 ELSE 2)

\* a completed run where one masked-reached vertex has no contribution (mask
\* 2) and another one has a contribution (mask 1)
C1_Witness ==
    /\ RunOk
    /\ \E i \in MaskedReached : StoredMod.mask[i] /\ TargetMesh.mask[i] = 2
    /\ \E j \in MaskedReached : ~StoredMod.mask[j] /\ TargetMesh.mask[j] = 1

\* C2 as stated: after run_projection completes with no masked sources, the
\* mask has one entry per vertex and the entry is 1 exactly where the result's
\* array mask is True (no contribution), 0 elsewhere.
C2_UncontributedIsOne ==
    (RunOk /\ ~IsMasked(sources)) =>
      /\ Len(TargetMesh.mask) = Len(TargetMesh.vertices)
      /\ \A i \in 1..Len(TargetMesh.vertices) :
            TargetMesh.mask[i] = (IF StoredMod.mask[i] THEN 1 ELSE 0)

\* C2 amended: after run_projection completes with no masked sources, the
\* mask has one entry per vertex and the entry is 1 exactly where a source
\* contributes (array mask False) while some vertex has no contribution, and
\* 0 elsewhere; when no vertex is within the radius of a source, every entry
\* is 0.
C2_ContributedIsOne ==
    (RunOk /\ ~IsMasked(sources)) =>
      /\ Len(TargetMesh.mask) = Len(TargetMesh.vertices)
      /\ \A i \in 1..Len(TargetMesh.vertices) :
            TargetMesh.mask[i] =
               (IF ~StoredMod.mask[i] /\ SomeUncontributed THEN 1 ELSE 0)
      /\ (\A i \in 1..Len(TargetMesh.vertices) : StoredMod.mask[i]) =>
            \A i \in 1..Len(TargetMesh.vertices) : TargetMesh.mask[i] = 0

\* a completed run without masked sources where one vertex has a contribution
\* (mask 1) and another has none (mask 0)
C2_Witness ==
    /\ RunOk
    /\ ~IsMasked(sources)
    /\ \E i \in 1..Len(TargetMesh.vertices) :
          ~StoredMod.mask[i] /\ TargetMesh.mask[i] = 1
    /\ \E j \in 1..Len(TargetMesh.vertices) :
          StoredMod.mask[j] /\ TargetMesh.mask[j] = 0

\* C3: when the settings pass the entry checks and the target id is not a key
\* of the registered objects, run_projection raises the ValueError that names
\* the target and lists the registered ids, and every registered mesh (color,
\* mask) is the same after the call as before it.
C3_NotFoundLeavesMeshes ==
    [][(/\ proj_ret'.op = "run"
        /\ ValidConfig(proj_radius, proj_type)
        /\ ~HasKey(proj_obj, proj_on))
       => (/\ proj_ret'.status = "ValueError"
           /\ proj_ret'.obj = proj_on
           /\ proj_ret'.ids = Keys(proj_obj)
           /\ proj_obj' = proj_obj)]_vars

\* a failed run for an unknown target while a registered mesh carries the
\* mask of an earlier projection
C3_Witness ==
    /\ proj_ret.op = "run"
    /\ proj_ret.status = "ValueError"
    /\ ~HasKey(proj_obj, proj_on)
    /\ \E k \in 1..Len(proj_obj) :
          \E i \in 1..Len(proj_obj[k].mesh.mask) : proj_obj[k].mesh.mask[i] # 0

\* C9: a run_projection that directly follows a completed run_projection
\* (same vertices, sources, settings and colorbar) completes and leaves the
\* same mask and color on every mesh, the same stored result and the same
\* cached (min, max).
C9_RunTwiceSame ==
    [][(RunOk /\ proj_ret'.op = "run")
       => (/\ proj_ret'.status = "ok"
           /\ proj_obj' = proj_obj
           /\ proj_data' = proj_data
           /\ sources_minmax' = sources_minmax)]_vars

\* two completed runs in a row that colored and masked the target mesh
C9_Witness ==
    /\ RunOk
    /\ proj_ret.runs = 2
    /\ \E i \in 1..Len(TargetMesh.mask) : TargetMesh.mask[i] # 0
    /\ \E i \in 1..Len(TargetMesh.color) : TargetMesh.color[i].kind = "cmap"

\* C10: after a completed run with type 'repartition' every per-vertex count
\* is >= 0 and <= the number of sources; in the scenario radius 3 gives
\* [1,0,0,0] and radius 1 gives [0,0,0,0].
C10_RepartitionCount ==
    (RunOk /\ proj_type = "repartition") =>
      /\ Len(StoredMod.data) = Len(TargetMesh.vertices)
      /\ \A i \in 1..Len(StoredMod.data) :
            StoredMod.data[i] >= 0 /\ StoredMod.data[i] <= Len(sources)
      /\ (proj_on = "brain" /\ sources = ScenarioSources) =>
            /\ proj_radius.val = 3 => StoredMod.data = <<1, 0, 0, 0>>
            /\ proj_radius.val = 1 => StoredMod.data = <<0, 0, 0, 0>>

\* the scenario was run with radius 3
C10_Witness ==
    /\ RunOk
    /\ proj_type = "repartition"
    /\ proj_on = "brain"
    /\ sources = ScenarioSources
    /\ proj_radius.val = 3
    /\ StoredMod.data = <<1, 0, 0, 0>>

\* C11: a run_projection called while the radius is not a number or the type
\* is not 'activity' or 'repartition' raises the AssertionError of the entry
\* checks; the stored result, the cached (min, max), every mesh, the radius
\* and the type are the same after the call as before it.
C11_ConfigErrorAtEntry ==
    [][(/\ proj_ret'.op = "run"
        /\ (~proj_radius.isnum \/ proj_type \notin {"activity", "repartition"}))
       => (/\ proj_ret'.status = "AssertionError"
           /\ proj_data' = proj_data
           /\ sources_minmax' = sources_minmax
           /\ proj_obj' = proj_obj
           /\ proj_radius' = proj_radius
           /\ proj_type' = proj_type)]_vars

\* a run refused at entry for its type while the radius is a number, the
\* target is registered, and the result, the mask and the color of an
\* earlier run are still there
C11_Witness ==
    /\ proj_ret.op = "run"
    /\ proj_ret.status = "AssertionError"
    /\ proj_radius.isnum
    /\ proj_type = "other"
    /\ HasKey(proj_obj, proj_on)
    /\ proj_data # None
    /\ \E i \in 1..Len(TargetMesh.mask) : TargetMesh.mask[i] # 0
    /\ \E i \in 1..Len(TargetMesh.color) : TargetMesh.color[i].kind = "cmap"

\* C15: after a completed run_projection the stored result is the per-vertex
\* result of the current settings (the ones of that call), and the cached
\* (min, max) of the source object is the smallest and the largest of its
\* entries that are not masked (the masked constant when all are masked).
C15_MinMaxOfThisRun ==
    RunOk =>
      LET mod == Modulation(proj_type, sources, TargetMesh.vertices,
                            proj_radius.val, proj_contribute)
          valid == {mod.data[i] : i \in {j \in 1..Len(mod.data) : ~mod.mask[j]}}
      IN /\ proj_data = Some(mod)
         /\ IF valid = {} THEN sources_minmax = <<None, None>>
            ELSE /\ Len(sources_minmax[1]) = 1
                 /\ Len(sources_minmax[2]) = 1
                 /\ sources_minmax[1][1] \in valid
                 /\ sources_minmax[2][1] \in valid
                 /\ \A x \in valid :
                       sources_minmax[1][1] <= x /\ x <= sources_minmax[2][1]

\* a completed run whose result has a masked entry and two different valid
\* values, none of them the value cached at construction
C15_Witness ==
    /\ RunOk
    /\ proj_type = "repartition"
    /\ SomeUncontributed
    /\ sources_minmax = <<Some(1), Some(2)>>

\* C16: a run_projection that raises the ValueError of an unknown target
\* leaves the stored result empty (None), also when an earlier run had stored
\* one, and leaves every mesh as it was.
C16_NotFoundResetsResult ==
    [][(proj_ret'.op = "run" /\ proj_ret'.status = "ValueError")
       => (proj_data' = None /\ proj_obj' = proj_obj)]_vars

\* after a failed run for an unknown target the stored result is empty, the
\* shape and the cached (min, max) of the earlier completed run are still
\* there, and a registered mesh still shows its colors and mask
C16_Witness ==
    /\ proj_ret.op = "run"
    /\ proj_ret.status = "ValueError"
    /\ proj_data = None
    /\ vsh # None
    /\ \E k \in 1..Len(proj_obj) :
          /\ \E i \in 1..Len(proj_obj[k].mesh.mask) : proj_obj[k].mesh.mask[i] = 1
          /\ \E i \in 1..Len(proj_obj[k].mesh.color) :
                proj_obj[k].mesh.color[i].kind = "cmap"

-----------------------------------------------------------------------------
(* Properties of the ROI object *)

\* the last call was a localize_sources that returned its table
LocOk == roi_ret.op = "localize" /\ roi_ret.status = "ok"

\* the rounded voxel index of point k of the last localize_sources call
SubAt(k) == SubOf(hdr, WorldOf(roi_ret.xyz[k], system))

\* the columns of the label fields
IsLabelField(col) == col \in {"label", "index"}

\* C4: after a localize_sources with replace_bad, the row of every point whose
\* rounded voxel index is outside the volume on some axis (below 0, or >= the
\* size) has all its label fields equal to 'Not found'.
C4_OutsideNotFound ==
    (LocOk /\ roi_ret.replace_bad) =>
      \A k \in 1..Len(roi_ret.xyz) :
        ~InVolume(vol.shape, SubAt(k)) =>
          /\ k <= Len(analysis.rows)
          /\ \A j \in 1..Len(analysis.cols) :
                IsLabelField(analysis.cols[j]) =>
                   analysis.rows[k][j] = StrCell("Not found")

\* C5: every localize_sources call returns, with a table of exactly one row
\* per point of the call.
C5_AlwaysFullTable ==
    roi_ret.op = "localize" =>
      /\ roi_ret.status = "ok"
      /\ Len(analysis.rows) = Len(roi_ret.xyz)

\* C6: the table returned by any localize_sources call has one row per point
\* of that call and the columns of a first call (name, label fields, X, Y, Z).
C6_TableRecreated ==
    LocOk =>
      /\ Len(analysis.rows) = Len(roi_ret.xyz)
      /\ analysis.cols = FirstCallCols

\* what the table shows for a cell, and for a point without label
Shown(c) == IF roi_ret.replace_bad THEN ReplaceCell(c, "Not found") ELSE c

C8_FailedLoadKeepsState ==
    [][(roi_ret'.op = "load" /\ roi_ret'.status # "ok")
       => UNCHANGED <<vol, hdr, offset, n_roi, system, ref>>]_vars

\* the last call was a get_roi_vertices that returned
SurfOk == roi_ret.op = "vertices" /\ roi_ret.status = "ok"

RECURSIVE SeqSum(_, _)
SeqSum(q, n) == IF n = 0 THEN 0 ELSE q[n] + SeqSum(q, n - 1)

\* C14: after a get_roi_vertices with unique_color and a list of levels, the
\* arrays are the per-level surfaces one after the other: the faces of level
\* i are its own faces shifted so that they index only the vertices that
\* level i contributed (past every vertex of the earlier levels), and every
\* vertex of level i has the color drawn for level i; levels with an empty
\* surface contribute nothing.
C14_LevelsConcatenated ==
    (SurfOk /\ surf.unique_color /\ surf.level.kind = "list") =>
      LET levels == surf.level.list
          n == Len(levels)
          part == [i \in 1..n |->
                     LevelSurface(vol, IntLevel(levels[i]), surf.smooth)]
          nv == [i \in 1..n |-> Len(part[i].v)]
          nf == [i \in 1..n |-> Len(part[i].f)]
      IN /\ Len(surf.vert) = SeqSum(nv, n)
         /\ Len(surf.faces) = SeqSum(nf, n)
         /\ Len(surf.color) = Len(surf.vert)
         /\ \A i \in 1..n :
               LET v0 == SeqSum(nv, i - 1)
                   f0 == SeqSum(nf, i - 1)
               IN /\ \A m \in 1..nf[i] : \A j \in 1..3 :
                        /\ surf.faces[f0 + m][j] = part[i].f[m][j] + v0
                        /\ surf.faces[f0 + m][j] >= v0
                        /\ surf.faces[f0 + m][j] < v0 + nv[i]
                  /\ \A k \in 1..nv[i] :
                        /\ surf.vert[v0 + k] = part[i].v[k]
                        /\ surf.color[v0 + k] = surf.col_unique[i]

\* levels 1 and 2 of the scenario volume: four vertices and four faces, then
\* three vertices whose face is shifted to (4, 5, 6), in two colors
C14_Witness ==
    /\ SurfOk
    /\ surf.unique_color
    /\ surf.level = ListLevel(<<1, 2>>)
    /\ vol = VolScenario
    /\ Len(surf.vert) = 7
    /\ surf.faces[5] = <<4, 5, 6>>
    /\ surf.color[4] # surf.color[5]

\* C17: once self.mesh exists no get_roi_vertices and no change_roi_object
\* changes its vertices, faces, mask or color; while it does not exist, a
\* get_roi_vertices that returns creates it exactly when plot is set and the
\* surface is not empty, from the arrays of that call.
C17_MeshCreatedOnce ==
    [][/\ roi_mesh # None => roi_mesh' = roi_mesh
       /\ roi_mesh = None =>
             IF /\ roi_ret'.op = "vertices"
                /\ roi_ret'.status = "ok"
                /\ surf'.plot
                /\ surf'.vert # <<>>
             THEN /\ roi_mesh' # None
                  /\ roi_mesh'[1].vertices = surf'.vert
                  /\ roi_mesh'[1].faces = surf'.faces
             ELSE roi_mesh' = None]_vars

\* the mesh made of levels 1 and 2 of the scenario volume is still there
\* after 'brodmann' was loaded and another surface was extracted with plot
C17_Witness ==
    /\ SurfOk
    /\ roi_mesh # None
    /\ Len(roi_mesh[1].vertices) = 7
    /\ roi_name = "brodmann"
    /\ surf.plot
    /\ Len(surf.vert) = 3

-----------------------------------------------------------------------------
(* Properties of the colorbar object *)

\* C12: after an autoscale, whatever set_data and autoscale calls came
\* before, clim is the (min, max) of the data of the most recent set_data
\* that recorded a range, and the clim given to the constructor when there
\* was none.
C12_AutoscaleToDataRange ==
    cb_ret.op = "autoscale" =>
      cb.clim = (IF cb_seen.data = None THEN cb_seen.init_clim
                 ELSE LET d == cb_seen.data[1]
                          lo == CHOOSE x \in Range(d) : \A y \in Range(d) : x <= y
                          hi == CHOOSE x \in Range(d) : \A y \in Range(d) : x >= y
                      IN Some(<<lo, hi>>))

\* an autoscale after a set_data whose clim argument differs from the range
\* of its data
C12_Witness ==
    /\ cb_ret.op = "autoscale"
    /\ cb_seen.data = Some(<<3, 1>>)
    /\ cb.clim = Some(<<1, 3>>)
    /\ cb.cmap = "plasma"

====
